---------------------------- MODULE Spec2Model ----------------------------
(***************************************************************************)
(* ScrollGuard (src/ScrollGuard.cpp): a console program that installs a    *)
(* global low-level mouse hook and swallows wheel events while a chosen    *)
(* process owns the foreground window and the cursor is not over it.       *)
(*                                                                         *)
(* Four specifications share the variables:                                *)
(*   SpecFilter  one call of LowLevelMouseProc on inputs drawn in Init     *)
(*   SpecEnum    one call of EnumerateApps on windows drawn in Init        *)
(*   Spec        a whole run of wmain with the console control handler     *)
(*               threads and the hook callbacks interleaved                *)
(*   FairSpec    Spec with weak fairness on the program's own threads      *)
(***************************************************************************)
EXTENDS Integers, Sequences, FiniteSets, TLC

\* ---------------------------------------------------------------- bounds
NumWindows == 2      \* window handles are 1..NumWindows
MaxPid == 3          \* process ids are 1..MaxPid
MaxSnapshot == 2     \* top-level windows in one EnumWindows snapshot
NumSignals == 2      \* console control signals delivered in one run

\* ------------------------------------------------------- program constants
NULL == 0                  \* nullptr / a null HWND / a null HHOOK
HC_ACTION == 0             \* the hook code of an ordinary call
WM_MOUSEWHEEL == 522       \* 0x020A
WM_MOUSEHWHEEL == 526      \* 0x020E
CTRL_C_EVENT == 0
CTRL_BREAK_EVENT == 1
CTRL_CLOSE_EVENT == 2

HWNDs == 1..NumWindows
Pids == 1..MaxPid
HookCodes == {HC_ACTION, -1}
\* 512 is WM_MOUSEMOVE, the message that is neither wheel kind
MouseMessages == {512, WM_MOUSEWHEEL, WM_MOUSEHWHEEL}
WheelMessages == {WM_MOUSEWHEEL, WM_MOUSEHWHEEL}

VARIABLES
  g_mouseHook,    \* HHOOK g_mouseHook (NULL or the handle)
  g_targetPid,    \* DWORD g_targetPid (0: no target)
  targetWrites,   \* assignments to g_targetPid made so far
  g_running,      \* volatile bool g_running
  event,          \* SpecFilter: the arguments and OS answers of the one call
  snapshot,       \* SpecEnum: the windows EnumWindows presents to the one call
  verdict,        \* "none", or what the last LowLevelMouseProc call returned
  chained,        \* CallNextHookEx calls made by the last LowLevelMouseProc call
  queries,        \* OS queries made by the last LowLevelMouseProc call
  passed,         \* arguments of the CallNextHookEx calls of the last call
  pc,             \* where the main thread is in wmain
  exitCode,       \* -1 while the process runs, else wmain's return value
  apps,           \* wmain's local: the list EnumerateApps returned
  choice,         \* wmain's local: the number read from the console
  cinFail,        \* std::wcin's failbit after `std::wcin >> choice`
  hoverPid,       \* what HoverSelectPid returned (-1: it was not called)
  errMsg,         \* the last line written to std::wcerr ("": none)
  handlerSet,     \* SetConsoleCtrlHandler has registered ConsoleCtrlHandler
  hookRet,        \* what SetWindowsHookExW returned to wmain
  osHook,         \* the OS side of the hook: "none", "installed", "released"
  installs,       \* calls of SetWindowsHookExW
  unhooks,        \* calls of UnhookWindowsHookEx with the hook's handle
  mainHook,       \* the value of g_mouseHook the exit path tested (line 225)
  goodbye,        \* "Goodbye." has been printed
  msgRead,        \* GetMessageW has handed back a result
  hpc,            \* per console control signal: where its handler thread is
  hhook           \* per running handler thread: the value of g_mouseHook it loaded

targetVars == <<g_targetPid, targetWrites>>
globals == <<g_mouseHook, targetVars, g_running>>
inputs == <<event, snapshot>>
hookOut == <<verdict, chained, queries, passed>>
mainVars == <<pc, exitCode, apps, choice, cinFail, hoverPid, errMsg, handlerSet,
              hookRet, mainHook, goodbye, msgRead>>
osVars == <<osHook, installs, unhooks>>
sigVars == <<hpc, hhook>>
vars == <<globals, inputs, hookOut, mainVars, osVars, sigVars>>

\* ------------------------------------------------------ the filter (pure)
\* One delivery of a mouse event: the callback's arguments and what the OS
\* answers to the queries the callback can make while it runs.
\*   fg     GetForegroundWindow()          (NULL: no foreground window)
\*   hit    WindowFromPoint(info->pt)      (NULL: no window at the point)
\*   root   GetAncestor(hit, GA_ROOT)      (NULL: no ancestor found)
\*   owner  GetWindowThreadProcessId(w, &pid): the pid written for window w,
\*          0 when the call fails and leaves pid as initialised
MouseEvents ==
  [nCode : HookCodes, wParam : MouseMessages,
   fg : HWNDs \cup {NULL}, hit : HWNDs \cup {NULL}, root : HWNDs \cup {NULL},
   owner : [HWNDs -> Pids \cup {0}]]

NoEvent == [nCode |-> HC_ACTION, wParam |-> 512, fg |-> NULL,
            hit |-> NULL, root |-> NULL, owner |-> [w \in HWNDs |-> 0]]

\* lines 126-128: fgPid stays 0 when there is no foreground window
ForegroundPid(e) == IF e.fg # NULL THEN e.owner[e.fg] ELSE 0

\* Mutant of PidFromPoint: with no window at the point it falls back to the
\* foreground window instead of returning 0.
PidFromPoint_FallsBackToForeground(e) ==
  IF e.hit = NULL THEN ForegroundPid(e)
  ELSE LET root == IF e.root = NULL THEN e.hit ELSE e.root
       IN  e.owner[root]

\* PidFromPoint (lines 112-120)
PidFromPoint(e) ==
  IF e.hit = NULL THEN 0
  ELSE LET root == IF e.root = NULL THEN e.hit ELSE e.root
       IN  e.owner[root]

\* Mutants of LowLevelMouseProcResult.
\* The comparison of underPid with the target is inverted.
LowLevelMouseProcResult_InvertedUnder(e, target) ==
  IF /\ e.nCode = HC_ACTION /\ target # 0 /\ e.wParam \in WheelMessages
     /\ ForegroundPid(e) = target /\ PidFromPoint(e) = target
  THEN "swallow" ELSE "forward"

\* The foreground test is missing.
LowLevelMouseProcResult_NoForegroundTest(e, target) ==
  IF /\ e.nCode = HC_ACTION /\ target # 0 /\ e.wParam \in WheelMessages
     /\ PidFromPoint(e) # target
  THEN "swallow" ELSE "forward"

\* The test of the window under the point is missing.
LowLevelMouseProcResult_NoUnderTest(e, target) ==
  IF /\ e.nCode = HC_ACTION /\ target # 0 /\ e.wParam \in WheelMessages
     /\ ForegroundPid(e) = target
  THEN "swallow" ELSE "forward"

\* The test of the message kind is missing.
LowLevelMouseProcResult_NoWheelTest(e, target) ==
  IF /\ e.nCode = HC_ACTION /\ target # 0
     /\ ForegroundPid(e) = target /\ PidFromPoint(e) # target
  THEN "swallow" ELSE "forward"

\* An unresolved point (underPid 0) is let through.
LowLevelMouseProcResult_FailOpen(e, target) ==
  IF /\ e.nCode = HC_ACTION /\ target # 0 /\ e.wParam \in WheelMessages
     /\ ForegroundPid(e) = target
     /\ PidFromPoint(e) # 0 /\ PidFromPoint(e) # target
  THEN "swallow" ELSE "forward"

\* The test that a target is set is missing.
LowLevelMouseProcResult_NoTargetTest(e, target) ==
  IF /\ e.nCode = HC_ACTION /\ e.wParam \in WheelMessages
     /\ ForegroundPid(e) = target /\ PidFromPoint(e) # target
  THEN "swallow" ELSE "forward"

\* The test of the hook code is missing.
LowLevelMouseProcResult_NoCodeTest(e, target) ==
  IF /\ target # 0 /\ e.wParam \in WheelMessages
     /\ ForegroundPid(e) = target /\ PidFromPoint(e) # target
  THEN "swallow" ELSE "forward"

\* The return value of LowLevelMouseProc (lines 123-141): "swallow" is
\* `return 1`, "forward" is `return CallNextHookEx(...)`.
LowLevelMouseProcResult(e, target) ==
  IF /\ e.nCode = HC_ACTION
     /\ target # 0
     /\ e.wParam \in WheelMessages
     /\ ForegroundPid(e) = target
     /\ PidFromPoint(e) # target
  THEN "swallow"
  ELSE "forward"

\* The OS queries one call makes: GetForegroundWindow for a wheel event of an
\* ordinary call with a target set, PidFromPoint only when the foreground
\* window belongs to the target.
LowLevelMouseProcQueries(e, target) ==
  IF e.nCode = HC_ACTION /\ target # 0 /\ e.wParam \in WheelMessages
  THEN IF ForegroundPid(e) = target THEN {"foreground", "point"}
       ELSE {"foreground"}
  ELSE {}

\* The event as the callback receives it: nCode, wParam and lParam, the
\* MSLLHOOKSTRUCT, of which the model keeps the point pt, identified by the
\* window WindowFromPoint finds there.
Received(e) == [nCode |-> e.nCode, wParam |-> e.wParam, pt |-> e.hit]

\* Mutant of CallNextHookExArgs: the code handed on is always HC_ACTION.
CallNextHookExArgs_FixedCode(e) ==
  [nCode |-> HC_ACTION, wParam |-> e.wParam, pt |-> e.hit]

\* The arguments of CallNextHookEx(g_mouseHook, nCode, wParam, lParam)
\* (line 140): the callback's own parameters, none of them written before.
CallNextHookExArgs(e) == [nCode |-> e.nCode, wParam |-> e.wParam, pt |-> e.hit]

\* What one call on event e with target t leaves behind: the verdict, the
\* queries made, and the CallNextHookEx calls (line 140) with their number.
HookOutcome(e, t) ==
  [verdict |-> LowLevelMouseProcResult(e, t),
   queries |-> LowLevelMouseProcQueries(e, t),
   chained |-> IF LowLevelMouseProcResult(e, t) = "forward" THEN 1 ELSE 0,
   passed |-> IF LowLevelMouseProcResult(e, t) = "forward"
              THEN <<CallNextHookExArgs(e)>> ELSE <<>>]

\* A call of the hook procedure with outcome o: it writes no global.
HookReturns(o) ==
  /\ verdict' = o.verdict
  /\ queries' = o.queries
  /\ chained' = o.chained
  /\ passed' = o.passed
  /\ UNCHANGED <<globals, inputs, mainVars, osVars, sigVars>>

\* One call of the hook procedure on event e.
LowLevelMouseProc(e) == HookReturns(HookOutcome(e, g_targetPid))

\* The outcomes of the calls on all events, per target: computed once.
HookOutcomes == [t \in Pids \cup {0} |-> {HookOutcome(e, t) : e \in MouseEvents}]

\* ------------------------------------------------------------- SpecFilter
\* The hook procedure alone: the target (0: none set), the arguments and the
\* OS answers are drawn in Init, and the one action applies the procedure.
Signals == 1..NumSignals

InitRest ==
  /\ targetWrites = 0
  /\ verdict = "none" /\ chained = 0 /\ queries = {} /\ passed = <<>>
  /\ pc = "enumerate" /\ exitCode = -1 /\ apps = <<>> /\ choice = 0
  /\ cinFail = FALSE /\ hoverPid = -1 /\ errMsg = ""
  /\ handlerSet = FALSE /\ hookRet = NULL
  /\ osHook = "none" /\ installs = 0 /\ unhooks = 0
  /\ mainHook = NULL /\ goodbye = FALSE /\ msgRead = FALSE
  /\ hpc = [t \in Signals |-> "idle"]
  /\ hhook = [t \in Signals |-> NULL]

InitFilter ==
  /\ g_mouseHook \in {NULL, 1}
  /\ g_targetPid \in Pids \cup {0}
  /\ g_running = TRUE
  /\ event \in MouseEvents
  /\ snapshot = <<>>
  /\ InitRest

FilterCall == verdict = "none" /\ LowLevelMouseProc(event)

NextFilter == FilterCall

SpecFilter == InitFilter /\ [][NextFilter]_vars

\* ----------------------------------------------------------- enumerator
\* Strings are sequences of UTF-16 code units.
NoTitle == <<91, 78, 111, 32, 84, 105, 116, 108, 101, 93>>    \* "[No Title]"
Unknown == <<40, 117, 110, 107, 110, 111, 119, 110, 41>>      \* "(unknown)"
Titles == {<<>>, <<32>>, <<97>>, <<66>>, <<97, 66>>}      \* "", " ", "a", "B", "aB"
Lengths == 0..1          \* what GetWindowTextLengthW returns

\* GetProcessNameFromPid (lines 38-59): the name the OS reports for a pid, or
\* "(unknown)" when the process cannot be opened. The processes of the model:
\* pid 1 is "b", pid 2 is "A", pid 3 is "a"; any other cannot be opened.
GetProcessNameFromPid(pid) ==
  CASE pid = 1 -> <<98>>
    [] pid = 2 -> <<65>>
    [] pid = 3 -> <<97>>
    [] OTHER -> Unknown

\* The smaller of two numbers.
Min(a, b) == IF a < b THEN a ELSE b

\* One top-level window as EnumWindows presents it, by what the OS answers
\* to the callback's queries: IsWindowVisible, the pid
\* GetWindowThreadProcessId writes (0: none), the length
\* GetWindowTextLengthW returns, the window's text when GetWindowTextW reads
\* it, and the number GetWindowTextW returns: at most the units that fit the
\* buffer of len + 1, 0 or less when it copies nothing. The text may have
\* changed since its length was read. A query the callback does not make
\* has no answer: the text and its numbers are left empty for a window that
\* is not visible or has no pid, or whose length is 0.
WindowInfos ==
  {w \in [visible : BOOLEAN, pid : Pids \cup {0}, len : Lengths,
          title : Titles, written : -1..1] :
     /\ w.written <= Min(w.len, Len(w.title))
     /\ (~w.visible \/ w.pid = 0 \/ w.len = 0) =>
          (w.len = 0 /\ w.title = <<>> /\ w.written = 0)}
\* The snapshots of n windows.
Snapshots(n) == [1..n -> WindowInfos]

\* Mutant of WindowTitle: a title of nothing but spaces is replaced as well.
WindowTitle_ReplacesBlank(text, len, written) ==
  LET title == SubSeq(text, 1, IF written < 0 THEN 0 ELSE written)
  IN  IF len > 0 /\ \E i \in 1..Len(title) : title[i] # 32
      THEN title ELSE NoTitle

\* The title of an entry (lines 76-89) for a window with text `text`, for
\* which GetWindowTextLengthW returned len and GetWindowTextW returned
\* written: the placeholder when len is 0 (GetWindowTextW is not called) or
\* when nothing was copied, else the first `written` units of the buffer, as
\* they are.
WindowTitle(text, len, written) ==
  IF len > 0
  THEN LET w == IF written < 0 THEN 0 ELSE written
           title == SubSeq(text, 1, w)
       IN  IF title = <<>> THEN NoTitle ELSE title
  ELSE NoTitle

\* Mutant of EnumWindowsProc: a window whose pid cannot be read is listed.
EnumWindowsProc_NoPidTest(out, hwnd, w) ==
  IF ~w.visible THEN out
  ELSE IF \E i \in 1..Len(out) : out[i].pid = w.pid THEN out
  ELSE Append(out, [hwnd |-> hwnd, pid |-> w.pid,
                    processName |-> GetProcessNameFromPid(w.pid),
                    windowTitle |-> WindowTitle(w.title, w.len, w.written)])

\* EnumWindowsProc (lines 62-95): out with window number hwnd of the snapshot
\* taken into account.
EnumWindowsProc(out, hwnd, w) ==
  IF ~w.visible THEN out
  ELSE IF w.pid = 0 THEN out
  ELSE IF \E i \in 1..Len(out) : out[i].pid = w.pid THEN out
  ELSE Append(out, [hwnd |-> hwnd, pid |-> w.pid,
                    processName |-> GetProcessNameFromPid(w.pid),
                    windowTitle |-> WindowTitle(w.title, w.len, w.written)])

\* EnumWindows(EnumWindowsProc, &apps) (line 100): the callback on each window
\* of the snapshot in order.
RECURSIVE EnumWindowsFrom(_, _, _)
EnumWindowsFrom(snap, i, out) ==
  IF i > Len(snap) THEN out
  ELSE EnumWindowsFrom(snap, i + 1, EnumWindowsProc(out, i, snap[i]))

EnumWindows(snap) == EnumWindowsFrom(snap, 1, <<>>)

\* Mutant of ToLower: capital letters are not folded, so that the comparison
\* distinguishes case.
ToLower_Identity(c) == c

\* towlower on the code units the model uses
ToLower(c) == IF c >= 65 /\ c <= 90 THEN c + 32 ELSE c

\* _wcsicmp (lines 104, 106): -1, 0 or 1
RECURSIVE WcsICmp(_, _)
WcsICmp(a, b) ==
  IF Len(a) = 0 /\ Len(b) = 0 THEN 0
  ELSE IF Len(a) = 0 THEN -1
  ELSE IF Len(b) = 0 THEN 1
  ELSE IF ToLower(Head(a)) < ToLower(Head(b)) THEN -1
  ELSE IF ToLower(Head(a)) > ToLower(Head(b)) THEN 1
  ELSE WcsICmp(Tail(a), Tail(b))

\* The comparator of std::sort (lines 103-107)
AppLess(a, b) ==
  LET c == WcsICmp(a.processName, b.processName)
  IN  IF c # 0 THEN c < 0
      ELSE WcsICmp(a.windowTitle, b.windowTitle) < 0

\* EnumerateApps (lines 97-109): the results std::sort may leave: every
\* arrangement of the collected entries that is ordered by the comparator
\* (std::sort is not stable: entries that compare equal end in any order).
EnumerateApps(snap) ==
  LET list == EnumWindows(snap)
      n == Len(list)
  IN  {[i \in 1..n |-> list[p[i]]] :
         p \in {q \in [1..n -> 1..n] :
                  /\ \A i, j \in 1..n : i # j => q[i] # q[j]
                  /\ \A i, j \in 1..n :
                       i < j => ~AppLess(list[q[j]], list[q[i]])}}

\* ------------------------------------------------------------ wmain
\* What the user types at the menu prompt: text that is no number, or a
\* number, of which MaxSnapshot + 1 is beyond every list.
ConsoleInputs ==
  {[numeric |-> FALSE, value |-> 0]}
    \cup {[numeric |-> TRUE, value |-> k] : k \in 0..(MaxSnapshot + 1)}

\* What the OS answers to the queries of PidFromPoint at the cursor position.
PointQueries ==
  [hit : HWNDs \cup {NULL}, root : HWNDs \cup {NULL}, owner : [HWNDs -> Pids \cup {0}]]

\* `return code` from wmain: the process ends and with it every thread.
Return(code) == pc' = "done" /\ exitCode' = code

\* line 176: auto apps = EnumerateApps(), with the windows of snap on the
\* desktop; line 178 chooses the branch
EnumerateFrom(snap) ==
  /\ pc = "enumerate"
  /\ \E list \in EnumerateApps(snap) :
       /\ apps' = list
       /\ pc' = IF Len(list) > 0 THEN "prompt" ELSE "hover"
  /\ UNCHANGED <<globals, inputs, hookOut, exitCode, choice, cinFail, hoverPid, errMsg,
                 handlerSet, hookRet, mainHook, goodbye, msgRead, osVars, sigVars>>

Enumerate ==
  /\ pc = "enumerate"
  /\ \E n \in 0..MaxSnapshot : \E snap \in Snapshots(n) : EnumerateFrom(snap)

\* ---------------------------------------------------------------- SpecEnum
\* The enumerator alone: the windows on the desktop are drawn in Init, and
\* the one action is wmain's call of EnumerateApps on them.
InitEnum ==
  /\ g_mouseHook = NULL /\ g_targetPid = 0 /\ g_running = TRUE
  /\ event = NoEvent
  /\ \E n \in 0..MaxSnapshot : snapshot \in Snapshots(n)
  /\ InitRest

EnumCall == EnumerateFrom(snapshot)

NextEnum == EnumCall

SpecEnum == InitEnum /\ [][NextEnum]_vars

\* lines 186-188: std::wcin >> choice
Prompt ==
  /\ pc = "prompt"
  /\ \E in \in ConsoleInputs :
       IF ~in.numeric
       THEN /\ cinFail' = TRUE /\ errMsg' = "Invalid input." /\ Return(2)
            /\ UNCHANGED choice
       ELSE /\ choice' = in.value /\ pc' = "pick"
            /\ UNCHANGED <<cinFail, errMsg, exitCode>>
  /\ UNCHANGED <<globals, inputs, hookOut, apps, hoverPid, handlerSet, hookRet,
                 mainHook, goodbye, msgRead, osVars, sigVars>>

\* Mutant of Pick: the range test is choice < apps.size().
Pick_RangeOffByOne ==
  /\ pc = "pick"
  /\ IF choice = 0
     THEN pc' = "hover" /\ UNCHANGED <<targetVars, errMsg, exitCode>>
     ELSE IF choice >= 1 /\ choice < Len(apps)
     THEN /\ g_targetPid' = apps[choice].pid /\ targetWrites' = targetWrites + 1
          /\ pc' = "announce"
          /\ UNCHANGED <<errMsg, exitCode>>
     ELSE /\ errMsg' = "Invalid selection." /\ Return(2)
          /\ UNCHANGED targetVars
  /\ UNCHANGED <<g_mouseHook, g_running, inputs, hookOut, apps, choice, cinFail,
                 hoverPid, handlerSet, hookRet, mainHook, goodbye, msgRead,
                 osVars, sigVars>>

\* lines 190-197: the branch on choice
Pick ==
  /\ pc = "pick"
  /\ IF choice = 0
     THEN pc' = "hover" /\ UNCHANGED <<targetVars, errMsg, exitCode>>
     ELSE IF choice >= 1 /\ choice <= Len(apps)
     THEN /\ g_targetPid' = apps[choice].pid /\ targetWrites' = targetWrites + 1
          /\ pc' = "announce"
          /\ UNCHANGED <<errMsg, exitCode>>
     ELSE /\ errMsg' = "Invalid selection." /\ Return(2)
          /\ UNCHANGED targetVars
  /\ UNCHANGED <<g_mouseHook, g_running, inputs, hookOut, apps, choice, cinFail,
                 hoverPid, handlerSet, hookRet, mainHook, goodbye, msgRead,
                 osVars, sigVars>>

\* HoverSelectPid (lines 159-170) and its two call sites (191-192, 200-201)
HoverSelectPid ==
  /\ pc = "hover"
  /\ \E q \in PointQueries :
       /\ hoverPid' = PidFromPoint(q)
       /\ g_targetPid' = PidFromPoint(q) /\ targetWrites' = targetWrites + 1
       /\ IF PidFromPoint(q) = 0
          THEN /\ errMsg' =
                 "Could not resolve a window under the cursor. Try again with the window visible."
               /\ Return(2)
          ELSE pc' = "announce" /\ UNCHANGED <<errMsg, exitCode>>
  /\ UNCHANGED <<g_mouseHook, g_running, inputs, hookOut, apps, choice, cinFail,
                 handlerSet, hookRet, mainHook, goodbye, msgRead, osVars, sigVars>>

\* lines 204-207: the selection is announced. apps and choice are not read
\* again: the model drops them here.
Announce ==
  /\ pc = "announce"
  /\ pc' = "register"
  /\ apps' = <<>> /\ choice' = 0 /\ hoverPid' = -1
  /\ UNCHANGED <<globals, inputs, hookOut, exitCode, cinFail, errMsg, handlerSet,
                 hookRet, mainHook, goodbye, msgRead, osVars, sigVars>>

\* line 210: SetConsoleCtrlHandler(ConsoleCtrlHandler, TRUE)
Register ==
  /\ pc = "register"
  /\ handlerSet' = TRUE /\ pc' = "install"
  /\ UNCHANGED <<globals, inputs, hookOut, exitCode, apps, choice, cinFail, hoverPid,
                 errMsg, hookRet, mainHook, goodbye, msgRead, osVars, sigVars>>

\* line 212, the call: SetWindowsHookExW installs the hook and returns its
\* handle, or fails and returns NULL.
Install ==
  /\ pc = "install"
  /\ installs' = installs + 1
  /\ \E ok \in BOOLEAN :
       IF ok THEN osHook' = "installed" /\ hookRet' = 1
       ELSE hookRet' = NULL /\ UNCHANGED osHook
  /\ pc' = "store"
  /\ UNCHANGED <<globals, inputs, hookOut, exitCode, apps, choice, cinFail, hoverPid,
                 errMsg, handlerSet, mainHook, goodbye, msgRead, unhooks, sigVars>>

\* line 212, the assignment: g_mouseHook = <the returned handle>
Store ==
  /\ pc = "store"
  /\ g_mouseHook' = hookRet /\ pc' = "check"
  /\ UNCHANGED <<targetVars, g_running, inputs, hookOut, exitCode, apps, choice,
                 cinFail, hoverPid, errMsg, handlerSet, hookRet, mainHook, goodbye,
                 msgRead, osVars, sigVars>>

\* Mutant of Check: a failed installation is attempted again.
Check_Retries ==
  /\ pc = "check"
  /\ \E h \in {hookRet, g_mouseHook} :
       IF h = NULL
       THEN pc' = "install" /\ UNCHANGED <<errMsg, exitCode>>
       ELSE pc' = "loop" /\ UNCHANGED <<errMsg, exitCode>>
  /\ UNCHANGED <<globals, inputs, hookOut, apps, choice, cinFail, hoverPid, handlerSet,
                 hookRet, mainHook, goodbye, msgRead, osVars, sigVars>>

\* lines 213-216: if (!g_mouseHook) return 3. g_mouseHook is a plain global
\* that a handler thread may clear meanwhile: the build may test the value it
\* just stored or load the global again.
Check ==
  /\ pc = "check"
  /\ \E h \in {hookRet, g_mouseHook} :
       IF h = NULL
       THEN errMsg' = "Failed to install mouse hook." /\ Return(3)
       ELSE pc' = "loop" /\ UNCHANGED <<errMsg, exitCode>>
  /\ UNCHANGED <<globals, inputs, hookOut, apps, choice, cinFail, hoverPid, handlerSet,
                 hookRet, mainHook, goodbye, msgRead, osVars, sigVars>>

\* line 220, the left operand: while (g_running && ...)
Loop ==
  /\ pc = "loop"
  /\ pc' = IF g_running THEN "getmsg" ELSE "cleanup"
  /\ UNCHANGED <<globals, inputs, hookOut, exitCode, apps, choice, cinFail, hoverPid,
                 errMsg, handlerSet, hookRet, mainHook, goodbye, msgRead, osVars,
                 sigVars>>

\* line 220, GetMessageW, and the loop body (221-222). The call blocks until
\* the thread's queue holds a message: r > 0 is a message (translated and
\* dispatched, no effect on the program's state), 0 is WM_QUIT, -1 an error.
GetMessage ==
  /\ pc = "getmsg"
  /\ msgRead' = TRUE
  /\ \E r \in {1, 0, -1} : pc' = IF r > 0 THEN "loop" ELSE "cleanup"
  /\ UNCHANGED <<globals, inputs, hookOut, exitCode, apps, choice, cinFail, hoverPid,
                 errMsg, handlerSet, hookRet, mainHook, goodbye, osVars, sigVars>>

\* While the main thread waits in GetMessageW and the hook is installed, the
\* OS calls LowLevelMouseProc on that thread for each mouse event: a call
\* LowLevelMouseProc(e) for some e of MouseEvents.
HookDispatch ==
  /\ pc = "getmsg"
  /\ osHook = "installed"
  /\ \E o \in HookOutcomes[g_targetPid] : HookReturns(o)

\* UnhookWindowsHookEx(h): a call with the hook's handle releases the hook if
\* it is still installed; a call with NULL fails and changes nothing.
UnhookWindowsHookEx(h) ==
  IF h # NULL
  THEN /\ unhooks' = unhooks + 1
       /\ osHook' = IF osHook = "installed" THEN "released" ELSE osHook
  ELSE UNCHANGED <<unhooks, osHook>>

\* line 225, the test: if (g_mouseHook)
Cleanup ==
  /\ pc = "cleanup"
  /\ mainHook' = g_mouseHook
  /\ pc' = IF g_mouseHook # NULL THEN "unhook" ELSE "farewell"
  /\ UNCHANGED <<globals, inputs, hookOut, exitCode, apps, choice, cinFail, hoverPid,
                 errMsg, handlerSet, hookRet, goodbye, msgRead, osVars, sigVars>>

\* line 225, the call: UnhookWindowsHookEx(g_mouseHook), with the value tested
\* or with the global loaded again (a plain global, written by the handler).
Unhook ==
  /\ pc = "unhook"
  /\ \E h \in {mainHook, g_mouseHook} : UnhookWindowsHookEx(h)
  /\ pc' = "clear"
  /\ UNCHANGED <<globals, inputs, hookOut, exitCode, apps, choice, cinFail, hoverPid,
                 errMsg, handlerSet, hookRet, mainHook, goodbye, msgRead, installs,
                 sigVars>>

\* line 225, the assignment: g_mouseHook = nullptr
Clear ==
  /\ pc = "clear"
  /\ g_mouseHook' = NULL /\ pc' = "farewell"
  /\ UNCHANGED <<targetVars, g_running, inputs, hookOut, exitCode, apps, choice,
                 cinFail, hoverPid, errMsg, handlerSet, hookRet, mainHook, goodbye,
                 msgRead, osVars, sigVars>>

\* lines 226-227: "Goodbye." and return 0
Farewell ==
  /\ pc = "farewell"
  /\ goodbye' = TRUE /\ Return(0)
  /\ UNCHANGED <<globals, inputs, hookOut, apps, choice, cinFail, hoverPid, errMsg,
                 handlerSet, hookRet, mainHook, msgRead, osVars, sigVars>>

\* The steps of wmain that wait for nothing outside the program.
MainStep ==
  \/ Enumerate \/ Pick \/ Announce \/ Register \/ Install \/ Store \/ Check
  \/ Loop \/ Cleanup \/ Unhook \/ Clear \/ Farewell

\* ------------------------------------------------ ConsoleCtrlHandler
\* 5 is CTRL_LOGOFF_EVENT
CtrlTypes == {CTRL_C_EVENT, CTRL_BREAK_EVENT, CTRL_CLOSE_EVENT, 5}
Recognized == {CTRL_C_EVENT, CTRL_BREAK_EVENT, CTRL_CLOSE_EVENT}
Alive == pc # "done"

\* The OS raises console control signal t with some type: once the handler
\* is registered it starts a new thread of the process on
\* ConsoleCtrlHandler(type), which is then at line 145. Nothing in the source
\* orders the handler threads of two signals, nor a handler thread and the
\* main thread: their steps interleave freely. What the OS does to the
\* process after a handler has returned is outside the source and is left
\* out: the threads simply go on.
Signal(t) ==
  /\ Alive /\ handlerSet
  /\ hpc[t] = "idle"
  /\ \A u \in Signals : u < t => hpc[u] # "idle"
  /\ \E type \in CtrlTypes :
       hpc' = [hpc EXCEPT ![t] = IF type \in Recognized THEN "entry" ELSE "other"]
  /\ UNCHANGED <<globals, inputs, hookOut, mainVars, osVars, hhook>>

\* Lines 146-147 write g_running and then test g_mouseHook, a plain global
\* that the main thread assigns without synchronisation: the build may load
\* it for the test after the write of g_running (HandlerEntry, HandlerTest)
\* or before it (HandlerLoad, HandlerStore).

\* lines 145-146, a recognized type: g_running = false, the load still to come
HandlerEntry(t) ==
  /\ Alive /\ hpc[t] = "entry"
  /\ g_running' = FALSE
  /\ hpc' = [hpc EXCEPT ![t] = "test"]
  /\ UNCHANGED <<g_mouseHook, targetVars, inputs, hookOut, mainVars, osVars, hhook>>

\* Mutant of HandlerOther: a type that is not recognized stops the loop too.
HandlerOther_ClearsFlag(t) ==
  /\ Alive /\ hpc[t] = "other"
  /\ g_running' = FALSE
  /\ hpc' = [hpc EXCEPT ![t] = "returnedFalse"]
  /\ UNCHANGED <<g_mouseHook, targetVars, inputs, hookOut, mainVars, osVars, hhook>>

\* lines 145 and 150, any other type: return FALSE
HandlerOther(t) ==
  /\ Alive /\ hpc[t] = "other"
  /\ hpc' = [hpc EXCEPT ![t] = "returnedFalse"]
  /\ UNCHANGED <<globals, inputs, hookOut, mainVars, osVars, hhook>>

\* line 147, the load of g_mouseHook for the test, made before the write of
\* line 146
HandlerLoad(t) ==
  /\ Alive /\ hpc[t] = "entry"
  /\ hhook' = [hhook EXCEPT ![t] = g_mouseHook]
  /\ hpc' = [hpc EXCEPT ![t] = "store"]
  /\ UNCHANGED <<globals, inputs, hookOut, mainVars, osVars>>

\* line 146 after the load: g_running = false; line 147, the test of the
\* value loaded; line 148 when it is null
HandlerStore(t) ==
  /\ Alive /\ hpc[t] = "store"
  /\ g_running' = FALSE
  /\ hpc' = [hpc EXCEPT ![t] = IF hhook[t] # NULL THEN "unhook" ELSE "returned"]
  /\ UNCHANGED <<g_mouseHook, targetVars, inputs, hookOut, mainVars, osVars, hhook>>

\* line 147, the load and the test after the write of line 146:
\* if (g_mouseHook); line 148 when it is null
HandlerTest(t) ==
  /\ Alive /\ hpc[t] = "test"
  /\ hhook' = [hhook EXCEPT ![t] = g_mouseHook]
  /\ hpc' = [hpc EXCEPT ![t] = IF g_mouseHook # NULL THEN "unhook" ELSE "returned"]
  /\ UNCHANGED <<globals, inputs, hookOut, mainVars, osVars>>

\* line 147, the call: UnhookWindowsHookEx(g_mouseHook)
HandlerUnhook(t) ==
  /\ Alive /\ hpc[t] = "unhook"
  /\ \E h \in {hhook[t], g_mouseHook} : UnhookWindowsHookEx(h)
  /\ hpc' = [hpc EXCEPT ![t] = "clear"]
  /\ UNCHANGED <<globals, inputs, hookOut, mainVars, installs, hhook>>

\* line 147, the assignment: g_mouseHook = nullptr; line 148: return TRUE,
\* which ends the thread and with it the value it had loaded
HandlerClear(t) ==
  /\ Alive /\ hpc[t] = "clear"
  /\ g_mouseHook' = NULL
  /\ hpc' = [hpc EXCEPT ![t] = "returned"]
  /\ hhook' = [hhook EXCEPT ![t] = NULL]
  /\ UNCHANGED <<targetVars, g_running, inputs, hookOut, mainVars, osVars>>

\* The steps of the handler thread of signal t.
HandlerStep(t) ==
  \/ HandlerEntry(t) \/ HandlerOther(t) \/ HandlerTest(t)
  \/ HandlerLoad(t) \/ HandlerStore(t)
  \/ HandlerUnhook(t) \/ HandlerClear(t)

\* ------------------------------------------------------------------ Spec
Init ==
  /\ g_mouseHook = NULL
  /\ g_targetPid = 0
  /\ g_running = TRUE
  /\ event = NoEvent
  /\ snapshot = <<>>
  /\ InitRest

Next ==
  \/ MainStep
  \/ Prompt
  \/ HoverSelectPid
  \/ GetMessage
  \/ HookDispatch
  \/ \E t \in Signals : Signal(t) \/ HandlerStep(t)

Spec == Init /\ [][Next]_vars

\* The program's own threads take their steps; nothing is assumed about the
\* console input, the mouse, the signals or the main thread's message queue.
FairSpec ==
  /\ Spec
  /\ WF_vars(MainStep)
  /\ \A t \in Signals : WF_vars(HandlerStep(t))

\* -------------------------------------------------- claims on the filter
\* The call of SpecFilter has been made.
Called == verdict # "none"
IsWheel == event.wParam \in WheelMessages
TargetSet == g_targetPid # 0
ForegroundIsTarget == TargetSet /\ ForegroundPid(event) = g_targetPid
\* The point resolves to a concrete window owned by a process other than the
\* target.
UnderIsOther ==
  event.hit # NULL /\ PidFromPoint(event) # 0 /\ PidFromPoint(event) # g_targetPid

\* C1 as stated: every wheel event delivered while the target is set, with
\* the target in the foreground and another process's window under the
\* point, is swallowed and not passed to the next hook. (Fails for a call
\* whose hook code is not HC_ACTION.)
C1_AsStated ==
  (Called /\ IsWheel /\ ForegroundIsTarget /\ UnderIsOther)
    => (verdict = "swallow" /\ chained = 0)

\* C1 amended: a wheel event delivered with hook code HC_ACTION while the
\* target is set, with the target in the foreground and another process's
\* window under the point, is swallowed and not passed to the next hook.
C1_SwallowOverOther ==
  (Called /\ event.nCode = HC_ACTION /\ IsWheel /\ ForegroundIsTarget /\ UnderIsOther)
    => (verdict = "swallow" /\ chained = 0)

C1_Witness ==
  /\ Called /\ event.nCode = HC_ACTION /\ IsWheel /\ ForegroundIsTarget
  /\ UnderIsOther /\ verdict = "swallow"

\* C2: a wheel event whose foreground pid differs from the target (also when
\* there is no foreground window at all) is forwarded to the next hook,
\* whatever lies under the point.
C2_ForwardWhenUnfocused ==
  (Called /\ IsWheel /\ (event.fg = NULL \/ ForegroundPid(event) # g_targetPid))
    => (verdict = "forward" /\ chained = 1)

C2_Witness ==
  /\ Called /\ event.nCode = HC_ACTION /\ IsWheel /\ TargetSet
  /\ ForegroundPid(event) \notin {0, g_targetPid}
  /\ event.hit # NULL /\ PidFromPoint(event) = ForegroundPid(event)
  /\ verdict = "forward"

\* C3: a wheel event with the target in the foreground and the window under
\* the point also owned by the target is forwarded.
C3_ForwardOverOwnWindow ==
  (Called /\ IsWheel /\ ForegroundIsTarget /\ PidFromPoint(event) = g_targetPid)
    => (verdict = "forward" /\ chained = 1)

\* The window under the point is a second window of the target's process.
C3_Witness ==
  /\ Called /\ event.nCode = HC_ACTION /\ IsWheel /\ ForegroundIsTarget
  /\ event.hit # NULL /\ event.hit # event.fg
  /\ PidFromPoint(event) = g_targetPid /\ verdict = "forward"

\* C4: a mouse event that is neither wheel kind is forwarded in every state:
\* target set or not, whatever the foreground pid and the point.
C4_NonWheelForwarded ==
  (Called /\ ~IsWheel) => (verdict = "forward" /\ chained = 1)

\* A move event where a wheel event with the same answers would be swallowed.
C4_Witness ==
  /\ Called /\ event.nCode = HC_ACTION /\ event.wParam = 512
  /\ ForegroundIsTarget /\ UnderIsOther /\ verdict = "forward"

\* C5 as stated: with the target in the foreground, a wheel event whose point
\* resolution fails (no window at the point) is forwarded.
C5_AsStated ==
  (Called /\ IsWheel /\ ForegroundIsTarget /\ event.hit = NULL)
    => verdict = "forward"

\* C5 amended: point resolution does not fail open. With hook code HC_ACTION
\* and the target in the foreground, a wheel event whose point resolves to no
\* pid (PidFromPoint returns 0: no window at the point, or the owner query
\* fails) is swallowed.
C5_UnresolvedPointSwallowed ==
  (Called /\ event.nCode = HC_ACTION /\ IsWheel /\ ForegroundIsTarget
     /\ PidFromPoint(event) = 0)
    => (verdict = "swallow" /\ chained = 0)

\* A window is found at the point but its owner cannot be resolved.
C5_Witness ==
  /\ Called /\ event.nCode = HC_ACTION /\ IsWheel /\ ForegroundIsTarget
  /\ event.hit # NULL /\ PidFromPoint(event) = 0 /\ verdict = "swallow"

\* C6 as stated: with the target in the foreground, a wheel event with no
\* window at all under the point is swallowed. (Fails for a call whose hook
\* code is not HC_ACTION.)
C6_AsStated ==
  (Called /\ IsWheel /\ ForegroundIsTarget /\ event.hit = NULL)
    => verdict = "swallow"

\* C6 amended: with hook code HC_ACTION and the target in the foreground, a
\* wheel event with no window at all under the point is swallowed.
C6_NoWindowSwallowed ==
  (Called /\ event.nCode = HC_ACTION /\ IsWheel /\ ForegroundIsTarget
     /\ event.hit = NULL)
    => (verdict = "swallow" /\ chained = 0)

C6_Witness ==
  /\ Called /\ event.nCode = HC_ACTION /\ IsWheel /\ ForegroundIsTarget
  /\ event.hit = NULL /\ verdict = "swallow"

\* ------------------------------------------------- claims on the lifecycle
\* The hook is installed and its handle is in g_mouseHook.
Armed == osHook = "installed" /\ g_mouseHook # NULL

\* C7: a recognized termination signal delivered while the system is Armed
\* and the main thread is in its message loop leads to the loop's exit, the
\* farewell and exit status 0, under fairness for the program's own threads
\* only.
C7_CleanShutdownReached ==
  (Armed /\ pc = "getmsg" /\ \E t \in Signals : hpc[t] = "entry")
    ~> (pc = "done" /\ exitCode = 0 /\ goodbye)

\* C8: under every interleaving of the uninstall steps of the handler
\* threads and of the main thread's exit path, UnhookWindowsHookEx is called
\* at most once with the hook's handle, so never with a released handle.
C8_NoDoubleUnhook == unhooks <= 1

\* C9: once ConsoleCtrlHandler has returned from a recognized signal,
\* g_running is false and the hook is not installed, then and at every later
\* point of the run.
C9_DisarmedOnReturn ==
  \A t \in Signals :
    hpc[t] = "returned"
      => (~g_running /\ g_mouseHook = NULL /\ osHook # "installed")

\* C10: the selector's outcomes. With a list of N > 0 entries, input k in
\* 1..N makes the target the pid of the k-th entry of the sorted list; input
\* 0 or an empty list goes to hover-select, which makes the target the pid
\* under the cursor; non-numeric input, k > N and a hover-select that finds
\* no window end the process with status 2 and the hook never installed.
\* Once the selector has ended there is either a non-zero target or exit
\* status 2, never both.
SelectorPcs == {"enumerate", "prompt", "pick", "hover"}

C10_SelectorOutcomes ==
  /\ pc = "announce" =>
       /\ g_targetPid \in Pids /\ ~cinFail /\ exitCode = -1
       /\ IF Len(apps) > 0 /\ choice # 0
          THEN /\ choice >= 1 /\ choice <= Len(apps)
               /\ g_targetPid = apps[choice].pid
               /\ hoverPid = -1
          ELSE hoverPid = g_targetPid
  /\ cinFail => exitCode = 2
  /\ (pc \notin SelectorPcs /\ Len(apps) > 0 /\ choice > Len(apps)) => exitCode = 2
  /\ hoverPid = 0 => exitCode = 2
  /\ exitCode = 2 =>
       /\ pc = "done" /\ g_targetPid = 0
       /\ installs = 0 /\ osHook = "none" /\ g_mouseHook = NULL
       /\ \/ cinFail /\ Len(apps) > 0
          \/ ~cinFail /\ Len(apps) > 0 /\ choice > Len(apps)
          \/ ~cinFail /\ (Len(apps) = 0 \/ choice = 0) /\ hoverPid = 0
  /\ pc \notin SelectorPcs => ((g_targetPid # 0) # (exitCode = 2))

\* The second entry of a list whose sorted order is not the order of
\* enumeration has been picked.
C10_Witness ==
  /\ pc = "announce" /\ Len(apps) = 2 /\ choice = 2
  /\ apps[1].hwnd > apps[2].hwnd
  /\ g_targetPid = apps[2].pid /\ g_targetPid # apps[1].pid

\* ------------------------------------------------------------------- C11
\* SetWindowsHookExW has been called and has returned NULL.
InstallFailed == installs > 0 /\ hookRet = NULL

\* C11: a failed installation is fatal and is not retried. SetWindowsHookExW
\* is called at most once; once it has returned NULL the main thread can only
\* store and test the handle and return 3 with the failure message: the
\* message loop is not entered, no message is read, the hook procedure is
\* never called, nothing is unhooked and the process is never Armed.
C11_InstallFailureFatal ==
  /\ installs <= 1
  /\ InstallFailed =>
       /\ pc \in {"store", "check", "done"}
       /\ pc = "done" =>
            exitCode = 3 /\ errMsg = "Failed to install mouse hook."
       /\ ~Armed /\ osHook = "none" /\ g_mouseHook = NULL
       /\ ~msgRead /\ verdict = "none" /\ unhooks = 0 /\ ~goodbye

\* The installation failed and the process has ended with status 3.
C11_Witness ==
  InstallFailed /\ installs = 1 /\ pc = "done" /\ exitCode = 3 /\ handlerSet

\* ------------------------------------------------------------------- C12
\* EnumerateApps has returned (SpecEnum).
Enumerated == pc # "enumerate"

\* The windows of the snapshot that are visible and whose owner is known.
Listable == {k \in 1..Len(snapshot) : snapshot[k].visible /\ snapshot[k].pid # 0}

\* The first listable window of process p in the order of enumeration.
FirstWindowOf(p) ==
  CHOOSE k \in Listable :
    /\ snapshot[k].pid = p
    /\ \A m \in Listable : snapshot[m].pid = p => k <= m

\* The units of its text the OS handed over for window w: those
\* GetWindowTextW copied, none when it was not called or copied nothing.
Copied(w) ==
  IF w.len > 0 /\ w.written > 0 THEN SubSeq(w.title, 1, w.written) ELSE <<>>

\* Text with its capital letters folded to small ones.
Folded(s) == [i \in 1..Len(s) |-> IF s[i] \in 65..90 THEN s[i] + 32 ELSE s[i]]

\* a comes no later than b, unit by unit.
LexLeq(a, b) ==
  \/ Len(a) <= Len(b) /\ \A i \in 1..Len(a) : a[i] = b[i]
  \/ \E k \in 1..Len(a) :
       /\ k <= Len(b) /\ a[k] < b[k]
       /\ \A i \in 1..(k - 1) : a[i] = b[i]

\* Entry x may stand before entry y: by name without regard to case, and by
\* title without regard to case where the names are the same.
InOrder(x, y) ==
  IF Folded(x.processName) # Folded(y.processName)
  THEN LexLeq(Folded(x.processName), Folded(y.processName))
  ELSE LexLeq(Folded(x.windowTitle), Folded(y.windowTitle))

\* C12: the list EnumerateApps returns has exactly one entry for each
\* non-zero pid that owns a visible window, that entry is the first visible
\* window of the pid in the order of enumeration, and the list is ordered by
\* process name and then by window title, both without regard to case.
C12_OnePerProcessSorted ==
  Enumerated =>
    /\ {apps[i].pid : i \in 1..Len(apps)} = {snapshot[k].pid : k \in Listable}
    /\ \A i, j \in 1..Len(apps) : apps[i].pid = apps[j].pid => i = j
    /\ \A i \in 1..Len(apps) :
         /\ apps[i].hwnd = FirstWindowOf(apps[i].pid)
         /\ apps[i].processName = GetProcessNameFromPid(apps[i].pid)
         /\ apps[i].windowTitle \in {Copied(snapshot[apps[i].hwnd]), NoTitle}
    /\ \A i, j \in 1..Len(apps) : i < j => InOrder(apps[i], apps[j])

\* Two visible windows of two processes whose names, "A" and "a", differ in
\* case only: the titles decide, "a" before "B" without regard to case, and
\* the list has the second window first. A comparison that distinguished
\* case would put "A" before "a", and "B" before "a".
C12_Witness ==
  /\ Enumerated /\ Len(snapshot) = 2 /\ Listable = {1, 2}
  /\ snapshot[1].pid = 2 /\ snapshot[2].pid = 3
  /\ Len(apps) = 2
  /\ apps[1].hwnd = 2 /\ apps[1].processName = <<97>> /\ apps[1].windowTitle = <<97>>
  /\ apps[2].hwnd = 1 /\ apps[2].processName = <<65>> /\ apps[2].windowTitle = <<66>>

\* ------------------------------------------------------------------- C13
\* C13: while no target is set (g_targetPid = 0) every wheel event is
\* forwarded down the hook chain, once, whatever the hook code, the pid of
\* the foreground window and the pid under the cursor are; nothing is
\* swallowed.
C13_ForwardWhenTargetUnset ==
  (Called /\ IsWheel /\ g_targetPid = 0) =>
    verdict = "forward" /\ chained = 1

\* No target, no foreground window (fgPid stays 0, the value of the unset
\* target) and the window of process 1 under the cursor: forwarded.
C13_Witness ==
  /\ Called /\ IsWheel /\ g_targetPid = 0 /\ event.nCode = HC_ACTION
  /\ ForegroundPid(event) = 0 /\ PidFromPoint(event) = 1
  /\ verdict = "forward" /\ chained = 1

\* ------------------------------------------------------------------- C14
\* An uninstall path has run to completion: a handler thread has returned
\* from lines 146-149, or the main thread is past line 225.
UninstallDone == (\E u \in Signals : hpc[u] = "returned") \/ pc = "farewell"

\* C14: uninstalling is idempotent when run in sequence. Once an uninstall
\* path has run to completion, an uninstall path that loads the handle for
\* its test afterwards (the handler of a later signal at line 147, the main
\* thread at line 225) finds it cleared: it makes no call of
\* UnhookWindowsHookEx and leaves g_mouseHook null and, at its end, g_running
\* false.
C14_SequentialIdempotent ==
  [][UninstallDone =>
       /\ \A t \in Signals :
            /\ (\/ hpc[t] = "test" /\ hpc'[t] # "test"
                \/ hpc[t] = "entry" /\ hpc'[t] = "store") =>
                 /\ hhook'[t] = NULL /\ hpc'[t] \in {"returned", "store"}
                 /\ unhooks' = unhooks /\ g_mouseHook' = NULL
            /\ (hpc[t] # "returned" /\ hpc'[t] = "returned") => ~g_running'
       /\ (pc = "cleanup" /\ pc' # "cleanup") =>
            /\ pc' = "farewell" /\ unhooks' = unhooks
            /\ g_mouseHook' = NULL /\ ~g_running']_vars

\* ------------------------------------------------------------------- C15
\* The title of the window an entry of the list stands for, as the OS handed
\* it over.
TextOf(entry) == Copied(snapshot[entry.hwnd])

\* The text is empty or has white space only (space, tab, line ends).
IsBlank(text) == \A i \in 1..Len(text) : text[i] \in {9, 10, 13, 32}

\* C15 as stated: an entry whose window has an empty or white-space-only
\* title carries "[No Title]", an entry whose window's title has a character
\* that is no white space carries that title as it is.
C15_AsStated ==
  Enumerated =>
    \A i \in 1..Len(apps) :
      apps[i].windowTitle =
        IF IsBlank(TextOf(apps[i])) THEN NoTitle ELSE TextOf(apps[i])

\* C15, corrected: an entry whose window has an empty title carries
\* "[No Title]"; an entry whose window has any other title, one of white
\* space only included, carries that title as it is.
C15_EmptyTitleReplaced ==
  Enumerated =>
    \A i \in 1..Len(apps) :
      apps[i].windowTitle =
        IF TextOf(apps[i]) = <<>> THEN NoTitle ELSE TextOf(apps[i])

\* A window titled " " and a window of which no text was copied, though a
\* length was announced, are listed: the first keeps its title, the second
\* carries the placeholder.
C15_Witness ==
  /\ Enumerated /\ Len(apps) = 2
  /\ \E i, j \in 1..2 :
       /\ TextOf(apps[i]) = <<32>> /\ apps[i].windowTitle = <<32>>
       /\ snapshot[apps[j].hwnd].len > 0 /\ snapshot[apps[j].hwnd].written <= 0
       /\ TextOf(apps[j]) = <<>> /\ apps[j].windowTitle = NoTitle

\* ------------------------------------------------------------------- C16
\* C16: when the process has ended, with status 0, 2 or 3, the hook is not
\* installed: with status 0 it has been installed and released before the
\* end, with status 2 or 3 it was never installed. The hook is installed at
\* most once in a run.
C16_TerminalUnarmed ==
  /\ installs <= 1
  /\ pc = "done" =>
       /\ exitCode \in {0, 2, 3}
       /\ osHook # "installed"
       /\ exitCode = 0 => osHook = "released"
       /\ exitCode \in {2, 3} => osHook = "none" /\ unhooks = 0

\* ------------------------------------------------------------------- C17
\* C17: g_targetPid is assigned at most once in a run, and only before the
\* hook is installed; whenever the hook is installed it holds a non-zero pid,
\* the one the selector left; once the selector has ended no step of any
\* thread (hook procedure, handler, main loop, exit path) assigns or changes
\* it.
C17_TargetWrittenOnce ==
  /\ [](/\ targetWrites <= 1
        /\ osHook = "installed" => (g_targetPid \in Pids /\ targetWrites = 1))
  /\ [][/\ targetWrites' # targetWrites =>
             (pc \in SelectorPcs /\ installs = 0 /\ osHook = "none")
        /\ g_targetPid' # g_targetPid => targetWrites' = targetWrites + 1
        /\ pc \notin SelectorPcs => UNCHANGED targetVars]_vars

\* The hook procedure has been called with the hook installed and a handler
\* thread has run, with the target still the pid written once.
C17_Witness ==
  /\ verdict # "none" /\ pc = "done" /\ exitCode = 0
  /\ \E t \in Signals : hpc[t] = "returned"
  /\ g_targetPid = 2 /\ targetWrites = 1

\* ------------------------------------------------------------------- C18
\* C18: g_running is true when the program starts and changes at most once,
\* from true to false, in the handler of a recognized signal (line 146);
\* nothing sets it true again; a handler that runs for a later recognized
\* signal leaves it false; the handler of a signal of any other type changes
\* neither g_running nor the hook (g_mouseHook, the installed hook, the number
\* of unhook calls).
C18_RunningFlagMonotonic ==
  /\ [](pc = "enumerate" => g_running)
  /\ [][/\ g_running' # g_running =>
             /\ g_running /\ ~g_running'
             /\ \E t \in Signals :
                  \/ hpc[t] = "entry" /\ hpc'[t] = "test"
                  \/ hpc[t] = "store" /\ hpc'[t] \in {"unhook", "returned"}
        /\ \A t \in Signals :
             hpc'[t] \in {"test", "unhook", "clear", "returned"} => ~g_running'
        /\ \A t \in Signals :
             (hpc[t] = "other" /\ hpc'[t] # "other") =>
               /\ hpc'[t] = "returnedFalse"
               /\ UNCHANGED <<g_running, g_mouseHook, osVars>>]_vars

\* A signal of another type and then a recognized one have been handled with
\* the hook installed: the first left g_running true, the second made it false.
C18_Witness ==
  /\ hpc[1] = "returnedFalse" /\ hpc[2] = "returned"
  /\ ~g_running /\ osHook = "released" /\ unhooks = 1

\* ------------------------------------------------------------------- C19
\* C19: a call of LowLevelMouseProc leaves g_targetPid, g_mouseHook and
\* g_running, and every other part of the program's state, as they were.
\* When it forwards, it calls CallNextHookEx exactly once, with the code,
\* the message and the payload it received; when it swallows it calls it not
\* at all. Nothing else is handed on, kept or sent again.
C19_CallbackIsPure ==
  /\ [](Called =>
          /\ verdict \in {"forward", "swallow"}
          /\ verdict = "forward" =>
               (chained = 1 /\ passed = <<Received(event)>>)
          /\ verdict = "swallow" => (chained = 0 /\ passed = <<>>))
  /\ [][verdict' # verdict =>
          UNCHANGED <<globals, inputs, mainVars, osVars, sigVars>>]_vars

\* A wheel event with a hook code other than HC_ACTION, the target in the
\* foreground and another process under the cursor has been forwarded as it
\* came, with the hook handle and the target in place.
C19_Witness ==
  /\ Called /\ IsWheel /\ event.nCode # HC_ACTION /\ event.hit # NULL
  /\ ForegroundIsTarget /\ UnderIsOther /\ g_mouseHook # NULL
  /\ verdict = "forward" /\ passed = <<Received(event)>> /\ g_running

\* ------------------------------------------------------------------- C20
\* C20: a call whose hook code is not HC_ACTION is always forwarded, and it
\* asks neither for the foreground window nor for the window at the point,
\* also for a wheel event with the target in the foreground and another
\* process under the cursor.
C20_OtherCodeForwardedUnexamined ==
  (Called /\ event.nCode # HC_ACTION) =>
    /\ verdict = "forward" /\ chained = 1
    /\ queries = {}

\* Such a wheel event, which HC_ACTION would have had swallowed.
C20_Witness ==
  /\ Called /\ event.nCode # HC_ACTION /\ IsWheel
  /\ ForegroundIsTarget /\ UnderIsOther /\ PidFromPoint(event) # 0
  /\ verdict = "forward" /\ queries = {}
=============================================================================
